---- MODULE Spec2Model ----
(***************************************************************************)
(* The containerd event monitor of the guest agent: the live event loop    *)
(* (MonitorPorts), the startup reconciliation (initializeRunningContainers)*)
(* the iptables rule synchronizer (execIptablesRules) and the ports-label  *)
(* extractor (createPortMappingFromString), with the port tracker they     *)
(* drive.                                                                  *)
(***************************************************************************)
EXTENDS Bags, FiniteSets, Integers, Sequences, TLC

\* ------------------------------------------------------------------ bounds
\* Longest ports label (number of entries) the extractor is run on.
MaxLen == 2

\* --------------------------------------------------------- program constants
\* strconv.ParseUint(port, 10, 16) in nat.NewPort: the largest accepted port.
MaxPort == 65535

\* ------------------------------------------------------------ value domains
Containers == {"c1", "c2"}
\* The container id of a zero-valued (undecoded) event.
NoID == ""

Port(hp, cp, proto, ip) ==
  [HostPort |-> hp, ContainerPort |-> cp, Protocol |-> proto, HostIP |-> ip]

\* A label value: the empty string, a JSON array of entries, or text that
\* json.Unmarshal rejects.
EmptyLabel == [kind |-> "empty", entries |-> <<>>]
Json(entries) == [kind |-> "json", entries |-> entries]
Malformed == [kind |-> "malformed", entries |-> <<>>]

\* The empty nat.PortMap; Go's nil map has the same length and lookups.
EmptyMap == <<>>

\* --------------------------------------------------------------- extractor
HostIPs == {"127.0.0.1", "0.0.0.0", "localhost", "10.0.0.5", ""}

NormalizeHostIP(ip) ==
  IF ip = "127.0.0.1" \/ ip = "localhost" THEN ip ELSE "0.0.0.0"

\* strconv.Itoa on a non-negative int: its decimal digits, most significant
\* first.
RECURSIVE Itoa(_)
Itoa(n) == IF n < 10 THEN <<n>> ELSE Append(Itoa(n \div 10), n % 10)

\* The number a digit string denotes.
RECURSIVE Atoi(_)
Atoi(s) ==
  IF Len(s) = 0 THEN 0
  ELSE 10 * Atoi(SubSeq(s, 1, Len(s) - 1)) + s[Len(s)]

\* nat.NewPort(proto, port): the key "<port>/<proto>", or an error when the
\* port does not parse as a 16-bit unsigned number.
NewPort(proto, port) ==
  [port |-> <<port, proto>>, err |-> Atoi(port) > MaxPort]

\* A loop that keeps only the last binding of a key.
RECURSIVE addPortsOverwriting(_, _)
addPortsOverwriting(ports, portMap) ==
  IF ports = <<>> THEN [portMap |-> portMap, err |-> FALSE]
  ELSE LET port == Head(ports)
           k == NewPort(port.Protocol, Itoa(port.ContainerPort))
           portBinding == [HostIP |-> NormalizeHostIP(port.HostIP),
                           HostPort |-> Itoa(port.HostPort)]
       IN IF k.err THEN [portMap |-> EmptyMap, err |-> TRUE]
          ELSE addPortsOverwriting(Tail(ports),
                 [x \in DOMAIN portMap \cup {k.port} |->
                    IF x = k.port THEN <<portBinding>> ELSE portMap[x]])

\* The loop of createPortMappingFromString over the decoded entries.
RECURSIVE addPorts(_, _)
addPorts(ports, portMap) ==
  IF ports = <<>> THEN [portMap |-> portMap, err |-> FALSE]
  ELSE LET port == Head(ports)
           k == NewPort(port.Protocol, Itoa(port.ContainerPort))
           portBinding == [HostIP |-> NormalizeHostIP(port.HostIP),
                           HostPort |-> Itoa(port.HostPort)]
       IN IF k.err THEN [portMap |-> EmptyMap, err |-> TRUE]
          ELSE addPorts(Tail(ports),
                 [x \in DOMAIN portMap \cup {k.port} |->
                    IF x = k.port
                    THEN IF x \in DOMAIN portMap
                         THEN Append(portMap[x], portBinding)
                         ELSE <<portBinding>>
                    ELSE portMap[x]])

createPortMappingFromString(portMapping) ==
  IF portMapping.kind = "empty" THEN [portMap |-> EmptyMap, err |-> FALSE]
  ELSE IF portMapping.kind = "malformed" THEN [portMap |-> EmptyMap, err |-> TRUE]
  ELSE addPorts(portMapping.entries, EmptyMap)

\* A length that is never zero.
MapLenOne(portMap) == 1

\* len(ports) of a nat.PortMap.
MapLen(portMap) == Cardinality(DOMAIN portMap)

\* ------------------------------------------------------------ host IP probe
\* What the nsenter probe can produce: its exit status and the addresses of
\* the output that match the inet <ipv4>/<prefixlen> pattern, in order.
ProbeResults ==
  { [exit |-> 1, inet |-> <<>>],
    [exit |-> 0, inet |-> <<>>],
    [exit |-> 0, inet |-> <<"10.4.0.22">>] }

\* A probe that always yields an address.
extractIPAddressDefault(probe) == [ip |-> "0.0.0.0", err |-> "nil"]

extractIPAddress(probe) ==
  IF probe.exit # 0 THEN [ip |-> "", err |-> "exec"]
  ELSE IF Len(probe.inet) < 1 THEN [ip |-> "", err |-> "ErrIPAddressNotFound"]
  ELSE [ip |-> probe.inet[1], err |-> "nil"]

\* ------------------------------------------------------- rule synchronizer
\* utils.MustFormatChainNameWithPrefix(network, cID, "DN-"): the prefix and
\* a hash of the network and the container's qualified id.
FormatChainName(network, cID) ==
  [prefix |-> "CNI-DN-", network |-> network, id |-> cID]

\* Every binding of a table, whatever its HostIP.
LoopbackBindingsAny(portMappings) ==
  { kb \in UNION { {<<k, i>> : i \in 1..Len(portMappings[k])} : k \in DOMAIN portMappings } :
      TRUE }

\* The loopback bindings of a table: <<key, index>> of every binding whose
\* HostIP is "127.0.0.1".
LoopbackBindings(portMappings) ==
  { kb \in UNION { {<<k, i>> : i \in 1..Len(portMappings[k])} : k \in DOMAIN portMappings } :
      portMappings[kb[1]][kb[2]].HostIP = "127.0.0.1" }

\* The iptables invocation of createLoopbackIPtablesRules for one network.
IptablesCmd(network, cID, eth0IP, port, destinationPort, ok) ==
  [table |-> "nat", append |-> FormatChainName(network, cID), protocol |-> "tcp",
   destination |-> "0.0.0.0/0", jump |-> "DNAT", dport |-> destinationPort,
   to |-> <<eth0IP, port>>, ok |-> ok]

\* A createLoopbackIPtablesRules that returns at the first failing command.
createLoopbackIPtablesRulesStopping(networks, containerID, namespace, probe, port, destinationPort, failing) ==
  LET eth0 == extractIPAddress(probe)
      cID == <<namespace, containerID>>
  IN IF eth0.err # "nil" THEN [run |-> {}, err |-> TRUE]
     ELSE [run |-> { <<j, IptablesCmd(networks[j], cID, eth0.ip, port, destinationPort,
                                      j \notin failing)>> :
                     j \in { i \in 1..Len(networks) : \A h \in 1..(i - 1) : h \notin failing } },
           err |-> failing \cap (1..Len(networks)) # {}]

\* createLoopbackIPtablesRules for one binding: the commands it runs, as
\* <<network index, command>>, and whether it returns an error.  probe is
\* the outcome of the IP probe, failing the network indexes whose command
\* exits non-zero.
createLoopbackIPtablesRules(networks, containerID, namespace, probe, port, destinationPort, failing) ==
  LET eth0 == extractIPAddress(probe)
      cID == <<namespace, containerID>>
  IN IF eth0.err # "nil" THEN [run |-> {}, err |-> TRUE]
     ELSE [run |-> { <<j, IptablesCmd(networks[j], cID, eth0.ip, port, destinationPort,
                                      j \notin failing)>> : j \in 1..Len(networks) },
           err |-> failing \cap (1..Len(networks)) # {}]

\* The outcomes the external commands of one execIptablesRules call can
\* have: a probe result per loopback binding and the set of failing
\* commands, as <<binding, network index>>.
ExecOutcomes(portMappings, networks) ==
  LET calls == LoopbackBindings(portMappings)
  IN { [probe |-> p, failing |-> f] :
         p \in [calls -> ProbeResults],
         f \in SUBSET (calls \X (1..Len(networks.entries))) }

\* The outcomes drawn where only the returned error is observed: the probes
\* of one call agree (they enter the same task's namespace), and the
\* commands all succeed or all fail.
UniformOutcomes(portMappings, networks) ==
  LET calls == LoopbackBindings(portMappings)
  IN { [probe |-> [c \in calls |-> p], failing |-> f] :
         p \in ProbeResults,
         f \in {{}, calls \X (1..Len(networks.entries))} }

\* execIptablesRules: the bag of commands run, the number of IP probes made
\* and whether an error is returned.
execIptablesRules(portMappings, containerID, networks, namespace, outcome) ==
  IF networks.kind # "json"
  THEN [cmds |-> EmptyBag, resolves |-> 0, err |-> TRUE]
  ELSE LET calls == LoopbackBindings(portMappings)
           one(kb) == createLoopbackIPtablesRules(
                        networks.entries, containerID, namespace, outcome.probe[kb],
                        kb[1][1], portMappings[kb[1]][kb[2]].HostPort,
                        { j \in 1..Len(networks.entries) : <<kb, j>> \in outcome.failing })
           run == UNION { { <<kb, r[1], r[2]>> : r \in one(kb).run } : kb \in calls }
           cmds == { r[3] : r \in run }
       IN [cmds |-> [c \in cmds |-> Cardinality({ r \in run : r[3] = c })],
           resolves |-> Cardinality(calls),
           err |-> \E kb \in calls : one(kb).err]

\* ------------------------------------------------------------ port tracker
\* The tracker's storage: per container, whether a record exists and the
\* mappings on record.
NoRecord == [present |-> FALSE, portMap |-> EmptyMap]

\* Get: the record's mappings, or nil when there is none.
TrackerGet(t, id) ==
  IF id \in Containers /\ t[id].present
  THEN [nil |-> FALSE, portMap |-> t[id].portMap]
  ELSE [nil |-> TRUE, portMap |-> EmptyMap]

\* Add: a no-op for an empty table, an error when a record exists.
TrackerAdd(t, id, portMap) ==
  IF MapLen(portMap) = 0 \/ id \notin Containers THEN [t |-> t, err |-> FALSE]
  ELSE IF t[id].present THEN [t |-> t, err |-> TRUE]
  ELSE [t |-> [t EXCEPT ![id] = [present |-> TRUE, portMap |-> portMap]], err |-> FALSE]

\* Remove: drops the container's record.
TrackerRemove(t, id) ==
  IF id \in Containers /\ t[id].present
  THEN [t |-> [t EXCEPT ![id] = NoRecord], err |-> FALSE]
  ELSE [t |-> t, err |-> TRUE]

\* RemoveAll: drops every record; when it fails, the records of kept may
\* be left behind.
TrackerRemoveAll(t, fails, kept) ==
  [t |-> [c \in Containers |-> IF fails /\ c \in kept THEN t[c] ELSE NoRecord],
   err |-> fails]

\* ----------------------------------------------------------------- inputs
Namespaces == {"default"}

Labels(p, n) == [ports |-> Json(p), networks |-> Json(n), namespace |-> "default"]

\* The labels (nerdctl/ports, nerdctl/networks, nerdctl/namespace) the
\* containers of this model can carry.
ScenarioA == Labels(<<Port(8080, 80, "tcp", "127.0.0.1")>>, <<"bridge">>)

LabelSets ==
  { ScenarioA,
    Labels(<<Port(8080, 80, "tcp", "127.0.0.1"), Port(8081, 80, "tcp", "0.0.0.0")>>,
           <<"bridge">>),
    Labels(<<Port(8081, 80, "tcp", "0.0.0.0"), Port(8080, 80, "tcp", "127.0.0.1")>>,
           <<"bridge">>),
    Labels(<<Port(9090, 90, "tcp", "localhost")>>, <<"bridge">>),
    Labels(<<Port(8081, 80, "tcp", "0.0.0.0")>>, <<"bridge">>),
    [ScenarioA EXCEPT !.networks = Malformed],
    [ScenarioA EXCEPT !.ports = EmptyLabel],
    [ScenarioA EXCEPT !.ports = Malformed] }

\* The labels of the zero-valued container a failed lookup leaves behind.
NoLabels == [ports |-> EmptyLabel, networks |-> EmptyLabel, namespace |-> ""]

\* The labels container id can carry: those of "c2" are never edited.
LabelsOf(id) == IF id = "c1" THEN LabelSets ELSE {ScenarioA}

\* What ContainerService().Get(ctx, id) can leave in container.Labels.
ContainerLookups(id) ==
  IF id = NoID THEN {NoLabels} ELSE {NoLabels} \cup LabelsOf(id)

\* The envelopes of the subscription: topic, namespace, and what
\* proto.Unmarshal leaves in the event (an undecodable payload may leave the
\* container id unset).
Topics == {"/tasks/start", "/containers/update", "/tasks/exit"}

Envelopes ==
  { v \in [Topic : Topics, Namespace : Namespaces,
           ContainerID : Containers \cup {NoID}, decodeErr : BOOLEAN] :
      /\ v.ContainerID = NoID => v.decodeErr
      /\ v.ContainerID = "c1" => ~v.decodeErr }

\* What containerdClient.Containers(ctx) can list.
ContainerLists == { <<>>, <<"c1">>, <<"c2">>, <<"c1", "c2">>, <<"c2", "c1">> }

\* ------------------------------------------------------------------- state
VARIABLES
  tracker,   \* the port tracker's storage
  lpc,       \* where the live loop of MonitorPorts is
  cur,       \* the envelope being handled and what its handler did so far
  rpc,       \* where initializeRunningContainers is
  rlist,     \* the listed containers it has still to visit
  last,      \* what the last completed handler or reconciler visit did
  received,  \* whether the live loop has received an envelope yet
  input,     \* the arguments of the function under check
  output,    \* its result
  backend,        \* which Kubernetes backend the object is: "wsl" or "lima"
  internalState,  \* the backend's user-visible state (K8s.State)
  currentAction,  \* the operation under way (Action)
  process,        \* the K3s child process of the WSL backend
  vm,             \* whether the distribution or virtual machine is running
  startpc,        \* where the start() in flight is
  stoppc,         \* where the stop() in flight is
  lastStop        \* the last call of stop() and what it returned into

vars == <<tracker, lpc, cur, rpc, rlist, last, received, input, output,
          backend, internalState, currentAction, process, vm, startpc, stoppc, lastStop>>
monitorVars == <<tracker, lpc, cur, rpc, rlist, last, received>>
backendVars == <<backend, internalState, currentAction, process, vm, startpc, stoppc, lastStop>>
pureVars == <<input, output>>
\* What the event monitor leaves alone.
otherVars == <<pureVars, backendVars>>

\* A backend object as constructed: stopped, with no action under way, no
\* child process and no call of stop() made yet.
NoStop == [by |-> "none", ignored |-> FALSE, state |-> "STOPPED", action |-> "idle", tick |-> 0]

NewBackend(b) ==
  /\ backend = b
  /\ internalState = "STOPPED"
  /\ currentAction = "idle"
  /\ process = "none"
  /\ vm = FALSE
  /\ startpc = "idle"
  /\ stoppc = "idle"
  /\ lastStop = NoStop

\* A handler's record: the envelope's topic and container (or the container
\* reconciled), the table extracted from the ports label and whether the
\* extraction returned an error, whether decoding the payload, the container
\* lookup and parsing the networks label failed, why the handler stopped
\* early, and the
\* synchronizer and tracker calls it made, in order, each with whether it
\* returned an error and how many iptables commands it ran.  tick flips with every record.
NoEvent ==
  [by |-> "none", Topic |-> "none", ContainerID |-> NoID, ports |-> EmptyMap,
   portsErr |-> FALSE, decodeErr |-> FALSE, lookupErr |-> FALSE,
   networksErr |-> FALSE, skip |-> "none", ops |-> <<>>, tick |-> 0]

Op(name, err, n) == [op |-> name, err |-> err, cmds |-> n]

\* What reading a container's labels found out: whether the container was
\* found, and whether its networks label is a JSON array.
Looked(labels) ==
  [lookupErr |-> labels = NoLabels, networksErr |-> labels.networks.kind # "json"]

\* The exit handler reads no label.
NotLooked == [lookupErr |-> FALSE, networksErr |-> FALSE]

Received(envelope, l, r) ==
  [NoEvent EXCEPT !.by = "live", !.Topic = envelope.Topic,
                  !.ContainerID = envelope.ContainerID, !.ports = r.portMap,
                  !.portsErr = r.err, !.decodeErr = envelope.decodeErr,
                  !.lookupErr = l.lookupErr, !.networksErr = l.networksErr]

Visiting(c) == [NoEvent EXCEPT !.by = "reconciler", !.Topic = "reconcile", !.ContainerID = c]

\* The record after a call that returned r, with the number of iptables
\* commands the call ran.
Called(e, name, r) ==
  [e EXCEPT !.ops = Append(@, Op(name, r.err,
                                 IF "cmds" \in DOMAIN r THEN BagCardinality(r.cmds) ELSE 0))]

\* The record of a handler that returns early.
Skipped(e, why) == [e EXCEPT !.skip = why]

\* The record as the last one completed.
Completed(e) == [e EXCEPT !.tick = 1 - last.tick]

\* No completed record: a handler is under way.
Pending == [NoEvent EXCEPT !.tick = last.tick]

InitMonitor ==
  /\ tracker = [c \in Containers |-> NoRecord]
  /\ lpc = "init"
  /\ cur = NoEvent
  /\ rpc = "idle"
  /\ rlist = <<>>
  /\ last = NoEvent
  /\ received = FALSE

NoInput == [kind |-> "none"]
NoOutput == [done |-> FALSE]

Init ==
  /\ InitMonitor
  /\ input = NoInput
  /\ output = NoOutput
  /\ NewBackend("wsl")

\* --------------------------------------------------------- the live loop
\* MonitorPorts up to its loop: subscribe and launch the reconciliation.
MonitorPorts ==
  /\ lpc \in {"init", "returned"}
  /\ rpc \in {"idle", "done"}
  /\ lpc' = "select"
  /\ rpc' = "list"
  /\ UNCHANGED <<tracker, cur, rlist, last, received, otherVars>>

\* A loop that logs the error and goes on selecting.
LoopExitStays(pc) == "select"

\* Where the loop is after case <-ctx.Done() or case err := <-errCh.
LoopExit(pc) == "returned"

\* case <-ctx.Done() and case err := <-errCh: the loop returns.
LoopReturn(why) ==
  /\ lpc = "select"
  /\ lpc' = LoopExit(lpc)
  /\ last' = Completed([NoEvent EXCEPT !.by = "live", !.Topic = why])
  /\ UNCHANGED <<tracker, cur, rpc, rlist, received, otherVars>>

\* A start handler that adds to the tracker before it runs the synchronizer.
StartHandlerAddFirst(envelope, labels, outcome) ==
  LET r == createPortMappingFromString(labels.ports)
      e == Received(envelope, Looked(labels), r)
      x == execIptablesRules(r.portMap, envelope.ContainerID, labels.networks,
                             envelope.Namespace, outcome)
      a == TrackerAdd(tracker, envelope.ContainerID, r.portMap)
  IN IF MapLen(r.portMap) = 0
     THEN [t |-> tracker, e |-> Skipped(e, "noPorts")]
     ELSE [t |-> a.t, e |-> Called(Called(e, "Add", a), "execIptablesRules", x)]

\* A start handler that leaves the tracker alone.
StartHandlerNoAdd(envelope, labels, outcome) ==
  LET r == createPortMappingFromString(labels.ports)
      e == Received(envelope, Looked(labels), r)
      x == execIptablesRules(r.portMap, envelope.ContainerID, labels.networks,
                             envelope.Namespace, outcome)
  IN IF MapLen(r.portMap) = 0
     THEN [t |-> tracker, e |-> Skipped(e, "noPorts")]
     ELSE [t |-> tracker, e |-> Called(e, "execIptablesRules", x)]

\* The body of case "/tasks/start": the lookup, the extraction, then
\* execIptablesRules (its error only logged) and e.portTracker.Add.
StartHandler(envelope, labels, outcome) ==
  LET r == createPortMappingFromString(labels.ports)
      e == Received(envelope, Looked(labels), r)
      x == execIptablesRules(r.portMap, envelope.ContainerID, labels.networks,
                             envelope.Namespace, outcome)
      a == TrackerAdd(tracker, envelope.ContainerID, r.portMap)
  IN IF MapLen(r.portMap) = 0
     THEN [t |-> tracker, e |-> Skipped(e, "noPorts")]
     ELSE [t |-> a.t, e |-> Called(Called(e, "execIptablesRules", x), "Add", a)]

TaskStart(envelope, labels, outcome) ==
  /\ lpc = "select"
  /\ envelope.Topic = "/tasks/start"
  /\ LET h == StartHandler(envelope, labels, outcome)
     IN /\ tracker' = h.t
        /\ last' = Completed(h.e)
  /\ received' = TRUE
  /\ UNCHANGED <<lpc, cur, rpc, rlist, otherVars>>

\* A comparison that finds every two tables different.
DeepEqualNever(a, b) == FALSE

\* The comparison of the update handler: reflect.DeepEqual of the two tables.
DeepEqual(a, b) == a = b

\* case "/containers/update", to the e.portTracker.Add it ends with: the
\* lookup, the extraction, the comparison with the mappings on record and,
\* when they differ, e.portTracker.Remove.
ContainerUpdate(envelope, labels) ==
  /\ lpc = "select"
  /\ envelope.Topic = "/containers/update"
  /\ LET r == createPortMappingFromString(labels.ports)
         e == Received(envelope, Looked(labels), r)
         existingPortMap == TrackerGet(tracker, envelope.ContainerID)
         d == TrackerRemove(tracker, envelope.ContainerID)
     IN IF MapLen(r.portMap) = 0
        THEN /\ last' = Completed(Skipped(e, "noPorts"))
             /\ UNCHANGED <<tracker, lpc, cur>>
        ELSE IF ~existingPortMap.nil
        THEN IF ~DeepEqual(r.portMap, existingPortMap.portMap)
             THEN /\ tracker' = d.t
                  /\ cur' = Called(e, "Remove", d)
                  /\ lpc' = "update_add"
                  /\ last' = Pending
             ELSE /\ last' = Completed(Skipped(e, "unchanged"))
                  /\ UNCHANGED <<tracker, lpc, cur>>
        ELSE /\ cur' = e
             /\ lpc' = "update_add_new"
             /\ last' = Pending
             /\ UNCHANGED tracker
  /\ received' = TRUE
  /\ UNCHANGED <<rpc, rlist, otherVars>>

\* e.portTracker.Add of the update handler, after the Remove.
ContainerUpdateAdd ==
  /\ lpc = "update_add"
  /\ LET r == TrackerAdd(tracker, cur.ContainerID, cur.ports)
     IN /\ tracker' = r.t
        /\ last' = Completed(Called(cur, "Add", r))
  /\ cur' = NoEvent
  /\ lpc' = "select"
  /\ UNCHANGED <<rpc, rlist, received, otherVars>>

\* An Add that is left to run after the loop is back at its select.
ContainerUpdateAddNewDetached ==
  /\ lpc = "update_add_new"
  /\ lpc' = "select"
  /\ last' = Completed(cur)
  /\ UNCHANGED <<tracker, cur, rpc, rlist, received, otherVars>>

\* e.portTracker.Add of the update handler for a container not on record.
ContainerUpdateAddNew ==
  /\ lpc = "update_add_new"
  /\ LET r == TrackerAdd(tracker, cur.ContainerID, cur.ports)
     IN /\ tracker' = r.t
        /\ last' = Completed(Called(cur, "Add", r))
  /\ cur' = NoEvent
  /\ lpc' = "select"
  /\ UNCHANGED <<rpc, rlist, received, otherVars>>

\* An exit handler that also runs an iptables command for the container.
ExitHandlerFlushing(envelope) ==
  LET portMapToDelete == TrackerGet(tracker, envelope.ContainerID)
      e == Called(Received(envelope, NotLooked, [portMap |-> EmptyMap, err |-> FALSE]),
                  "iptables", [err |-> FALSE, cmds |-> SetToBag({"flush"})])
      d == TrackerRemove(tracker, envelope.ContainerID)
  IN IF ~portMapToDelete.nil
     THEN [t |-> d.t, e |-> Called(e, "Remove", d)]
     ELSE [t |-> tracker, e |-> Skipped(e, "untracked")]

\* An exit handler that leaves the tracker alone.
ExitHandlerNoRemove(envelope) ==
  [t |-> tracker,
   e |-> Skipped(Received(envelope, NotLooked, [portMap |-> EmptyMap, err |-> FALSE]), "untracked")]

\* The body of case "/tasks/exit": e.portTracker.Get and, when there is a
\* record, e.portTracker.Remove.
ExitHandler(envelope) ==
  LET portMapToDelete == TrackerGet(tracker, envelope.ContainerID)
      e == Received(envelope, NotLooked, [portMap |-> EmptyMap, err |-> FALSE])
      d == TrackerRemove(tracker, envelope.ContainerID)
  IN IF ~portMapToDelete.nil
     THEN [t |-> d.t, e |-> Called(e, "Remove", d)]
     ELSE [t |-> tracker, e |-> Skipped(e, "untracked")]

TaskExit(envelope) ==
  /\ lpc = "select"
  /\ envelope.Topic = "/tasks/exit"
  /\ LET h == ExitHandler(envelope)
     IN /\ tracker' = h.t
        /\ last' = Completed(h.e)
  /\ received' = TRUE
  /\ UNCHANGED <<lpc, cur, rpc, rlist, otherVars>>

\* ------------------------------------------------- startup reconciliation
\* What the task, status and labels calls on a listed container can return:
\* a failure, a task that is not running, or the labels of a running one.
Inspections(c) ==
  { [fail |-> f, labels |-> NoLabels] :
      f \in {"task", "status", "notRunning", "labels"} }
  \cup { [fail |-> "none", labels |-> l] : l \in LabelsOf(c) }

\* A pass that ends with its first visit.
VisitedDone(list) == "done"

\* Where the loop over the listed containers goes after a visit.
Visited(list) == IF Len(list) <= 1 THEN "done" ELSE "check"

\* e.containerdClient.Containers(ctx); a failure ends the pass.
ListContainers(ok, containers) ==
  /\ rpc = "list"
  /\ rlist' = IF ok THEN containers ELSE <<>>
  /\ rpc' = IF ok /\ containers # <<>> THEN "check" ELSE "done"
  /\ UNCHANGED <<tracker, lpc, cur, last, received, otherVars>>

\* The check of a reconciler that never skips a tracked container.
AlreadyTrackedNever(c) == FALSE

\* len(e.portTracker.Get(c.ID())) != 0
AlreadyTracked(c) == MapLen(TrackerGet(tracker, c).portMap) # 0

\* The head of the loop body: skip an already tracked container.
ReconcileCheck ==
  /\ rpc = "check"
  /\ LET c == Head(rlist)
     IN IF AlreadyTracked(c)
        THEN /\ last' = Completed(Skipped(Visiting(c), "tracked"))
             /\ rlist' = Tail(rlist)
             /\ rpc' = Visited(rlist)
        ELSE /\ rpc' = "inspect"
             /\ UNCHANGED <<rlist, last>>
  /\ UNCHANGED <<tracker, lpc, cur, received, otherVars>>

\* A loop body that takes a task that is not running for a running one.
ReconcileHandlerIgnoringStatus(c, inspection, outcome) ==
  LET labels == IF inspection.fail = "notRunning" THEN ScenarioA ELSE inspection.labels
      r == createPortMappingFromString(labels.ports)
      e == [Visiting(c) EXCEPT !.ports = r.portMap, !.portsErr = r.err,
                               !.networksErr = labels.networks.kind # "json",
                               !.skip = inspection.fail]
      o == IF inspection.fail = "notRunning"
           THEN CHOOSE u \in UniformOutcomes(r.portMap, labels.networks) : TRUE
           ELSE outcome
      x == execIptablesRules(r.portMap, c, labels.networks, labels.namespace, o)
      a == TrackerAdd(tracker, c, r.portMap)
  IN IF inspection.fail \notin {"none", "notRunning"}
     THEN [t |-> tracker, e |-> Skipped(Visiting(c), inspection.fail)]
     ELSE IF MapLen(r.portMap) = 0
     THEN [t |-> tracker, e |-> Skipped(e, "noPorts")]
     ELSE [t |-> a.t, e |-> Called(Called(e, "execIptablesRules", x), "Add", a)]

\* A loop body that runs the synchronizer and leaves the tracker alone.
ReconcileHandlerNoAdd(c, inspection, outcome) ==
  LET r == createPortMappingFromString(inspection.labels.ports)
      e == [Visiting(c) EXCEPT !.ports = r.portMap, !.portsErr = r.err,
                               !.networksErr = inspection.labels.networks.kind # "json"]
      x == execIptablesRules(r.portMap, c, inspection.labels.networks,
                             inspection.labels.namespace, outcome)
  IN IF inspection.fail # "none"
     THEN [t |-> tracker, e |-> Skipped(Visiting(c), inspection.fail)]
     ELSE IF MapLen(r.portMap) = 0
     THEN [t |-> tracker, e |-> Skipped(e, "noPorts")]
     ELSE [t |-> tracker, e |-> Called(e, "execIptablesRules", x)]

\* The rest of the loop body: c.Task, t.Status, c.Labels, the extraction,
\* then execIptablesRules (its error only logged) and e.portTracker.Add.
ReconcileHandler(c, inspection, outcome) ==
  LET r == createPortMappingFromString(inspection.labels.ports)
      e == [Visiting(c) EXCEPT !.ports = r.portMap, !.portsErr = r.err,
                               !.networksErr = inspection.labels.networks.kind # "json"]
      x == execIptablesRules(r.portMap, c, inspection.labels.networks,
                             inspection.labels.namespace, outcome)
      a == TrackerAdd(tracker, c, r.portMap)
  IN IF inspection.fail # "none"
     THEN [t |-> tracker, e |-> Skipped(Visiting(c), inspection.fail)]
     ELSE IF MapLen(r.portMap) = 0
     THEN [t |-> tracker, e |-> Skipped(e, "noPorts")]
     ELSE [t |-> a.t, e |-> Called(Called(e, "execIptablesRules", x), "Add", a)]

ReconcileVisit(inspection, outcome) ==
  /\ rpc = "inspect"
  /\ LET h == ReconcileHandler(Head(rlist), inspection, outcome)
     IN /\ tracker' = h.t
        /\ last' = Completed(h.e)
  /\ rlist' = Tail(rlist)
  /\ rpc' = Visited(rlist)
  /\ UNCHANGED <<lpc, cur, received, otherVars>>

\* ------------------------------------------------------------------ Close
\* A Close that returns when closing the client fails.
CloseHandlerEarlyReturn(closeErr, fails, kept) ==
  LET e == [NoEvent EXCEPT !.by = "close", !.Topic = "Close"]
      c == [err |-> closeErr]
      d == TrackerRemoveAll(tracker, fails, kept)
  IN IF closeErr
     THEN [t |-> tracker, e |-> Called(e, "containerdClient.Close", c)]
     ELSE [t |-> d.t, e |-> Called(Called(e, "containerdClient.Close", c), "RemoveAll", d)]

\* Close: e.containerdClient.Close(), its error kept for the return value,
\* then e.portTracker.RemoveAll().
CloseHandler(closeErr, fails, kept) ==
  LET e == [NoEvent EXCEPT !.by = "close", !.Topic = "Close"]
      c == [err |-> closeErr]
      d == TrackerRemoveAll(tracker, fails, kept)
  IN [t |-> d.t, e |-> Called(Called(e, "containerdClient.Close", c), "RemoveAll", d)]

Close(closeErr, fails, kept) ==
  /\ LET h == CloseHandler(closeErr, fails, kept)
     IN /\ tracker' = h.t
        /\ last' = Completed(h.e)
  /\ UNCHANGED <<lpc, cur, rpc, rlist, received, otherVars>>

\* ---------------------------------------------------------- specification
Next ==
  \/ MonitorPorts
  \/ \E why \in {"ctx.Done", "errCh"} : LoopReturn(why)
  \/ \E closeErr \in BOOLEAN : \E fails \in BOOLEAN :
       \E kept \in IF fails THEN SUBSET { c \in Containers : tracker[c].present } ELSE {{}} :
         Close(closeErr, fails, kept)
  \/ \E envelope \in Envelopes : \E labels \in ContainerLookups(envelope.ContainerID) :
       \E outcome \in UniformOutcomes(createPortMappingFromString(labels.ports).portMap,
                                      labels.networks) :
         TaskStart(envelope, labels, outcome)
  \/ \E envelope \in Envelopes : \E labels \in ContainerLookups(envelope.ContainerID) :
       ContainerUpdate(envelope, labels)
  \/ ContainerUpdateAdd
  \/ ContainerUpdateAddNew
  \/ \E envelope \in Envelopes : TaskExit(envelope)
  \/ \E ok \in BOOLEAN : \E containers \in ContainerLists : ListContainers(ok, containers)
  \/ ReconcileCheck
  \/ \E inspection \in Inspections(IF rlist = <<>> THEN NoID ELSE Head(rlist)) :
       \E outcome \in UniformOutcomes(createPortMappingFromString(inspection.labels.ports).portMap,
                                      inspection.labels.networks) :
         ReconcileVisit(inspection, outcome)

Spec == Init /\ [][Next]_vars

\* One step of the reconciliation goroutine started at line 84: the listing,
\* the check of one container, or the rest of its loop body.  The visit names
\* the advance of the list first, which every ReconcileVisit makes.
initializeRunningContainers ==
  \/ \E ok \in BOOLEAN : \E containers \in ContainerLists :
       ListContainers(ok, containers)
  \/ ReconcileCheck
  \/ /\ rpc = "inspect"
     /\ rlist' = Tail(rlist)
     /\ \E inspection \in Inspections(Head(rlist)) :
          \E outcome \in UniformOutcomes(
                           createPortMappingFromString(inspection.labels.ports).portMap,
                           inspection.labels.networks) :
            ReconcileVisit(inspection, outcome)

\* The reconciliation goroutine is scheduled and the calls it makes return:
\* a step of it that stays enabled is taken.
ReconcilerFairness == WF_vars(initializeRunningContainers)

SpecFair == Init /\ [][Next]_vars /\ ReconcilerFairness

\* ------------------------------------ the pure functions, run on their own
HostPorts == {8080, 8081}
ContainerPorts == {80, 70000}
Protocols == {"tcp", "udp"}

PortEntries ==
  { Port(hp, cp, proto, ip) :
      hp \in HostPorts, cp \in ContainerPorts, proto \in Protocols, ip \in HostIPs }

\* Every JSON ports label of n entries.
JsonLabels(n) == { Json(l) : l \in [1..n -> PortEntries] }

\* The tables and networks labels the synchronizer is run on.
SyncTables ==
  { createPortMappingFromString(Json(l)).portMap :
      l \in { <<Port(8080, 80, "tcp", "127.0.0.1")>>,
              <<Port(8080, 80, "tcp", "127.0.0.1"), Port(8081, 80, "tcp", "0.0.0.0")>>,
              <<Port(8080, 80, "tcp", "127.0.0.1"), Port(8081, 80, "tcp", "127.0.0.1")>>,
              <<Port(8080, 80, "tcp", "127.0.0.1"), Port(5353, 53, "udp", "127.0.0.1")>>,
              <<Port(9090, 90, "tcp", "localhost"), Port(8081, 80, "tcp", "10.0.0.5")>> } }

SyncNetworks ==
  { Json(<<"bridge">>), Json(<<"bridge", "backend">>), Json(<<>>), EmptyLabel, Malformed }

SyncInputs ==
  UNION { { [kind |-> "sync", portMappings |-> pm, containerID |-> c,
             networks |-> n, namespace |-> ns, outcome |-> o] :
              o \in ExecOutcomes(pm, n) } :
          pm \in SyncTables, c \in Containers, n \in SyncNetworks, ns \in Namespaces }

\* A line of the probe's combined output: an address line of `ip -o -4 addr
\* show` (family "inet", the address followed by /<prefixlen>), an inet6
\* line, or other text such as an error message of nsenter.
OutputLine(family, addr, prefix) == [family |-> family, addr |-> addr, prefix |-> prefix]

OutputLines ==
  { OutputLine("inet", "10.4.0.22", TRUE), OutputLine("inet", "10.4.0.23", TRUE),
    OutputLine("inet", "10.4.0.24", FALSE), OutputLine("inet6", "fe80::1", TRUE),
    OutputLine("text", "", FALSE) }

\* rx.FindStringSubmatch over the output: the addresses that follow "inet"
\* and are followed by /<prefixlen>, in the order of the output.
RECURSIVE FindSubmatch(_)
FindSubmatch(lines) ==
  IF lines = <<>> THEN <<>>
  ELSE LET l == Head(lines)
       IN IF l.family = "inet" /\ l.prefix
          THEN <<l.addr>> \o FindSubmatch(Tail(lines))
          ELSE FindSubmatch(Tail(lines))

\* The probes the resolver is run on: an exit status and up to MaxLen lines
\* of output.
ProbeRuns(n) == { [exit |-> x, lines |-> l] : x \in {0, 1}, l \in [1..n -> OutputLines] }

\* The function under check and its arguments: the extractor on a ports
\* label of at most MaxLen entries, NormalizeHostIP on a host IP, the
\* resolver on a probe run, or the synchronizer.
InitFunctions ==
  /\ InitMonitor
  /\ \/ \E n \in 0..MaxLen : \E l \in JsonLabels(n) : input = [kind |-> "label", label |-> l]
     \/ \E l \in {EmptyLabel, Malformed} : input = [kind |-> "label", label |-> l]
     \/ \E ip \in HostIPs : input = [kind |-> "ip", ip |-> ip]
     \/ \E n \in 0..MaxLen : \E p \in ProbeRuns(n) : input = [kind |-> "probe", probe |-> p]
     \/ input \in SyncInputs
  /\ output = NoOutput
  /\ NewBackend("wsl")

Extract ==
  /\ input.kind = "label"
  /\ ~output.done
  /\ output' = [done |-> TRUE, val |-> createPortMappingFromString(input.label)]
  /\ UNCHANGED <<input, monitorVars, backendVars>>

Normalize ==
  /\ input.kind = "ip"
  /\ ~output.done
  /\ output' = [done |-> TRUE, val |-> NormalizeHostIP(input.ip)]
  /\ UNCHANGED <<input, monitorVars, backendVars>>

Resolve ==
  /\ input.kind = "probe"
  /\ ~output.done
  /\ output' = [done |-> TRUE,
                val |-> extractIPAddress([exit |-> input.probe.exit,
                                          inet |-> FindSubmatch(input.probe.lines)])]
  /\ UNCHANGED <<input, monitorVars, backendVars>>

Synchronize ==
  /\ input.kind = "sync"
  /\ ~output.done
  /\ output' = [done |-> TRUE,
                val |-> execIptablesRules(input.portMappings, input.containerID,
                                          input.networks, input.namespace, input.outcome)]
  /\ UNCHANGED <<input, monitorVars, backendVars>>

NextFunctions == Extract \/ Normalize \/ Resolve \/ Synchronize

SpecFunctions == InitFunctions /\ [][NextFunctions]_vars

\* ------------------------------------------------ the Kubernetes backends
\* WSLBackend and LimaBackend: start(), stop() and the handler of the K3s
\* child's exit, with the awaits of start() and stop() as separate steps.
Backends == {"wsl", "lima"}

\* progressTracker.action(description, priority, fn) either runs fn before it
\* returns its promise or leaves it for a later turn.
Bodies == {"now", "later"}

InitBackend ==
  /\ InitMonitor
  /\ input = NoInput
  /\ output = NoOutput
  /\ \E b \in Backends : NewBackend(b)

\* A stop() with no check of currentAction.
stopUnguarded(body) ==
  [internalState |-> IF backend = "wsl" \/ body = "now" THEN "STOPPING" ELSE internalState,
   currentAction |-> "stopping",
   stoppc |-> IF backend = "wsl" \/ body = "now" THEN "terminating" ELSE "entered",
   ignored |-> FALSE]

\* stop() up to its first await: the fields it leaves and whether it
\* returned at the check of currentAction.  WSLBackend sets the state
\* before progressTracker.action, LimaBackend inside its callback.
stop(body) ==
  IF currentAction # "idle"
  THEN [internalState |-> internalState, currentAction |-> currentAction,
        stoppc |-> stoppc, ignored |-> TRUE]
  ELSE [internalState |-> IF backend = "wsl" \/ body = "now" THEN "STOPPING" ELSE internalState,
        currentAction |-> "stopping",
        stoppc |-> IF backend = "wsl" \/ body = "now" THEN "terminating" ELSE "entered",
        ignored |-> FALSE]

\* The record of a call of stop(): who called and the state and action it
\* returned into.
Stopped(by, r) ==
  [by |-> by, ignored |-> r.ignored, state |-> r.internalState,
   action |-> r.currentAction, tick |-> 1 - lastStop.tick]

\* A second stop() body is not started while one is in flight.
OneStopInFlight == currentAction = "idle" => stoppc = "idle"

\* stop() called by the application, del() or reset().
Stop(by, body) ==
  /\ OneStopInFlight
  /\ LET r == stop(body)
     IN /\ internalState' = r.internalState
        /\ currentAction' = r.currentAction
        /\ stoppc' = r.stoppc
        /\ lastStop' = Stopped(by, r)
  /\ UNCHANGED <<backend, process, vm, startpc, monitorVars, pureVars>>

\* The callback of LimaBackend.stop, run in a later turn.
StopBody ==
  /\ stoppc = "entered"
  /\ internalState' = "STOPPING"
  /\ stoppc' = "terminating"
  /\ UNCHANGED <<backend, currentAction, process, vm, startpc, lastStop, monitorVars, pureVars>>

\* The rest of stop(): the distribution or machine is terminated and the
\* state set to STOPPED, or the failure is caught and the state set to
\* ERROR; finally currentAction is reset.
StopFinish(ok) ==
  /\ stoppc = "terminating"
  /\ internalState' = IF ok THEN "STOPPED" ELSE "ERROR"
  /\ vm' = IF ok THEN FALSE ELSE vm
  /\ currentAction' = "idle"
  /\ stoppc' = "idle"
  /\ UNCHANGED <<backend, process, startpc, lastStop, monitorVars, pureVars>>

\* start() up to its first await.  LimaBackend sets the state before
\* progressTracker.action, WSLBackend inside its callback.  A process marked
\* "crashed" is one that exited abnormally with no action under way and no
\* start() called since.
Start(body) ==
  /\ startpc = "idle"
  /\ currentAction' = "starting"
  /\ IF backend = "lima" \/ body = "now"
     THEN internalState' = "STARTING" /\ startpc' = "preparing"
     ELSE internalState' = internalState /\ startpc' = "entered"
  /\ process' = IF process = "crashed" THEN "exited" ELSE process
  /\ UNCHANGED <<backend, vm, stoppc, lastStop, monitorVars, pureVars>>

\* The callback of WSLBackend.start, run in a later turn.
StartBody ==
  /\ startpc = "entered"
  /\ internalState' = "STARTING"
  /\ startpc' = "preparing"
  /\ UNCHANGED <<backend, currentAction, process, vm, stoppc, lastStop, monitorVars, pureVars>>

\* start() after its preparations: a failure is caught; a start that is no
\* longer the current action returns; otherwise the machine is up and, in
\* WSLBackend, the K3s process is spawned with its exit handler.
StartPrepared(ok) ==
  /\ startpc = "preparing"
  /\ IF ~ok
     THEN /\ internalState' = "ERROR"
          /\ currentAction' = "idle"
          /\ startpc' = "idle"
          /\ UNCHANGED <<process, vm>>
     ELSE IF currentAction # "starting"
     THEN /\ currentAction' = "idle"
          /\ startpc' = "idle"
          /\ UNCHANGED <<internalState, process, vm>>
     ELSE /\ process' = IF backend = "wsl" THEN "running" ELSE process
          /\ vm' = TRUE
          /\ startpc' = "spawned"
          /\ UNCHANGED <<internalState, currentAction>>
  /\ UNCHANGED <<backend, stoppc, lastStop, monitorVars, pureVars>>

\* The end of start(): the state becomes STARTED, or ERROR when a wait
\* failed; finally currentAction is reset.
StartFinish(ok) ==
  /\ startpc = "spawned"
  /\ internalState' = IF ok THEN "STARTED" ELSE "ERROR"
  /\ currentAction' = "idle"
  /\ startpc' = "idle"
  /\ UNCHANGED <<backend, process, vm, stoppc, lastStop, monitorVars, pureVars>>

\* The 'exit' handler of the K3s process: stop() is called and not awaited;
\* after an exit with a non-zero status or a signal other than SIGTERM the
\* handler then sets the state to ERROR.
ProcessExit(how) ==
  /\ backend = "wsl"
  /\ process = "running"
  /\ OneStopInFlight
  /\ LET r == stop("now")
     IN /\ internalState' = IF how = "abnormal" THEN "ERROR" ELSE r.internalState
        /\ currentAction' = r.currentAction
        /\ stoppc' = r.stoppc
        /\ lastStop' = Stopped("exit", r)
  /\ process' = IF how = "abnormal" /\ currentAction = "idle" THEN "crashed" ELSE "exited"
  /\ UNCHANGED <<backend, vm, startpc, monitorVars, pureVars>>

NextBackend ==
  \/ \E body \in Bodies : Start(body)
  \/ StartBody
  \/ \E ok \in BOOLEAN : StartPrepared(ok)
  \/ \E ok \in BOOLEAN : StartFinish(ok)
  \/ \E by \in {"user", "del"} : \E body \in Bodies : Stop(by, body)
  \/ StopBody
  \/ \E ok \in BOOLEAN : StopFinish(ok)
  \/ \E how \in {"graceful", "abnormal"} : ProcessExit(how)

SpecBackend == InitBackend /\ [][NextBackend]_vars

\* =================================================================== claims
\* A step that completes a handler or a reconciler visit.
Completes == last'.tick # last.tick

\* The calls of a record, by name and in order.
Names(ops) == [i \in DOMAIN ops |-> ops[i].op]

\* The record of the update handler that a step of the live loop begins.
UpdateRecord == IF lpc' = "select" THEN last' ELSE cur'

\* A step in which the live loop receives a /containers/update envelope.
UpdateReceived ==
  /\ lpc = "select"
  /\ Completes \/ lpc' \in {"update_add", "update_add_new"}
  /\ UpdateRecord.by = "live"
  /\ UpdateRecord.Topic = "/containers/update"

\* A step that completes the handler of a /tasks/start envelope whose ports
\* label decoded to a non-empty table.
StartCompleted ==
  /\ Completes
  /\ last'.Topic = "/tasks/start"
  /\ last'.ports # EmptyMap

\* C1, as stated: after a task-start event for container C whose ports label
\* decodes to a non-empty table P, the tracker's record for C equals P.
C1_AsClaimed ==
  [][StartCompleted =>
       TrackerGet(tracker', last'.ContainerID) = [nil |-> FALSE, portMap |-> last'.ports]]_vars

\* C1, amended: after such a task-start event the tracker's record for C
\* equals P when the tracker held no record for C, and is the record it held
\* (the Add fails, the tracker is as it was) when it held one.
C1_StartTracksUntracked ==
  [][StartCompleted =>
       IF TrackerGet(tracker, last'.ContainerID).nil
       THEN TrackerGet(tracker', last'.ContainerID) =
              [nil |-> FALSE, portMap |-> last'.ports]
       ELSE tracker' = tracker]_vars

C1_Witness ==
  /\ last.Topic = "/tasks/start"
  /\ last.ports # EmptyMap
  /\ Names(last.ops) = <<"execIptablesRules", "Add">>
  /\ ~last.ops[2].err
  /\ TrackerGet(tracker, last.ContainerID) = [nil |-> FALSE, portMap |-> last.ports]

\* C2: an update event for a tracked container whose extracted table is
\* structurally equal to the one on record changes nothing in the tracker
\* and makes no synchronizer call (no IP probe, no iptables command); the
\* handler is over with that step.
C2_UnchangedUpdateIsNoOp ==
  [][(/\ UpdateReceived
      /\ ~TrackerGet(tracker, UpdateRecord.ContainerID).nil
      /\ TrackerGet(tracker, UpdateRecord.ContainerID).portMap = UpdateRecord.ports)
     => /\ lpc' = "select"
        /\ Completes
        /\ last'.ops = <<>>
        /\ tracker' = tracker]_vars

C2_Witness ==
  /\ last.Topic = "/containers/update"
  /\ last.skip = "unchanged"
  /\ last.ops = <<>>
  /\ TrackerGet(tracker, last.ContainerID) = [nil |-> FALSE, portMap |-> last.ports]

\* C3, as stated: an update event for a tracked container whose extracted
\* table differs from the one on record makes exactly one Remove followed by
\* exactly one Add, calls the rule synchronizer for the new table, and
\* leaves the new table on record.
C3_AsClaimed ==
  [][(lpc = "update_add" /\ lpc' = "select")
     => /\ SelectSeq(Names(last'.ops), LAMBDA n : n \in {"Remove", "Add"}) = <<"Remove", "Add">>
        /\ \E i \in DOMAIN last'.ops : last'.ops[i].op = "execIptablesRules"
        /\ TrackerGet(tracker', last'.ContainerID) =
             [nil |-> FALSE, portMap |-> last'.ports]]_vars

\* C4: after a task-exit event for container C the tracker holds no record
\* for C, whether or not it held one; the handler makes no synchronizer
\* call; for a container not on record it changes nothing, and in both
\* cases the loop goes on.
C4_ExitUntracks ==
  [][(Completes /\ last'.Topic = "/tasks/exit")
     => /\ TrackerGet(tracker', last'.ContainerID).nil
        /\ \A i \in DOMAIN last'.ops : last'.ops[i].op # "execIptablesRules"
        /\ \A c \in Containers \ {last'.ContainerID} : tracker'[c] = tracker[c]
        /\ lpc' = "select"
        /\ TrackerGet(tracker, last'.ContainerID).nil
             => (tracker' = tracker /\ last'.ops = <<>>)]_vars

C4_Witness ==
  /\ last.Topic = "/tasks/exit"
  /\ last.ContainerID \in Containers
  /\ Names(last.ops) = <<"Remove">>
  /\ TrackerGet(tracker, last.ContainerID).nil

\* C5: reconciliation is idempotent.  A visit that finds a running container
\* with a non-empty table calls the synchronizer and Add, and the container
\* is on record afterwards; a visit that finds the container on record (as
\* every visit of a second pass with no event in between does) makes no
\* call and leaves the tracker as it was.
C5_ReconcileIdempotent ==
  [][/\ (/\ rpc = "check"
         /\ <<rpc, rlist>>' # <<rpc, rlist>>
         /\ ~TrackerGet(tracker, Head(rlist)).nil)
        => /\ Completes
           /\ last'.by = "reconciler"
           /\ last'.skip = "tracked"
           /\ last'.ops = <<>>
           /\ tracker' = tracker
     /\ (/\ rpc = "inspect"
         /\ rpc' # "inspect"
         /\ last'.ports # EmptyMap)
        => /\ Names(last'.ops) = <<"execIptablesRules", "Add">>
           /\ ~TrackerGet(tracker', last'.ContainerID).nil
           /\ TrackerGet(tracker, last'.ContainerID).nil
                => TrackerGet(tracker', last'.ContainerID).portMap = last'.ports]_vars

C5_Witness ==
  /\ ~received
  /\ last.by = "reconciler"
  /\ last.skip = "tracked"
  /\ last.ops = <<>>
  /\ ~TrackerGet(tracker, last.ContainerID).nil

\* C6: an update event for a container not on record whose ports label is
\* empty or absent changes nothing in the tracker, makes no call, and the
\* loop goes on to the next envelope.
C6_EmptyUpdateIsNoOp ==
  [][(/\ UpdateReceived
      /\ TrackerGet(tracker, UpdateRecord.ContainerID).nil
      /\ UpdateRecord.ports = EmptyMap
      /\ ~UpdateRecord.portsErr)
     => /\ lpc' = "select"
        /\ Completes
        /\ last'.ops = <<>>
        /\ tracker' = tracker]_vars

C6_Witness ==
  /\ last.Topic = "/containers/update"
  /\ last.ContainerID \in Containers
  /\ last.ports = EmptyMap
  /\ ~last.portsErr
  /\ last.skip = "noPorts"
  /\ last.ops = <<>>
  /\ lpc = "select"
  /\ TrackerGet(tracker, last.ContainerID).nil

\* The bindings of the synchronizer's table whose host IP is 127.0.0.1.
SyncLoopback ==
  { kb \in UNION { {<<k, i>> : i \in 1..Len(input.portMappings[k])} :
                   k \in DOMAIN input.portMappings } :
      input.portMappings[kb[1]][kb[2]].HostIP = "127.0.0.1" }

\* Command c is the append for binding kb on the j-th declared network.
SyncAppendFor(c, kb, j) ==
  /\ c.table = "nat"
  /\ c.jump = "DNAT"
  /\ c.append = FormatChainName(input.networks.entries[j],
                                <<input.namespace, input.containerID>>)
  /\ c.dport = input.portMappings[kb[1]][kb[2]].HostPort
  /\ c.to = <<input.outcome.probe[kb].inet[1], kb[1][1]>>

\* C7: when every IP probe succeeds, one call of the synchronizer runs
\* exactly one append per (binding with host IP 127.0.0.1, declared network)
\* and none for any other binding: on the chain named from the network and
\* <namespace>-<containerID>, matching the binding's host port, with DNAT to
\* <resolved IP>:<container port>.
C7_OneAppendPerLoopbackBindingAndNetwork ==
  (/\ output.done
   /\ input.kind = "sync"
   /\ input.networks.kind = "json"
   /\ \A kb \in SyncLoopback : extractIPAddress(input.outcome.probe[kb]).err = "nil")
  => LET cmds == output.val.cmds
         pairs == SyncLoopback \X (1..Len(input.networks.entries))
     IN /\ BagCardinality(cmds) = Cardinality(pairs)
        /\ \A pr \in pairs : \E c \in BagToSet(cmds) : SyncAppendFor(c, pr[1], pr[2])
        /\ \A c \in BagToSet(cmds) :
             CopiesIn(c, cmds) =
               Cardinality({ pr \in pairs : SyncAppendFor(c, pr[1], pr[2]) })

C7_Witness ==
  /\ output.done
  /\ input.kind = "sync"
  /\ input.networks.kind = "json"
  /\ Len(input.networks.entries) = 2
  /\ Cardinality(SyncLoopback) = 1
  /\ \E k \in DOMAIN input.portMappings : \E i \in DOMAIN input.portMappings[k] :
       input.portMappings[k][i].HostIP = "0.0.0.0"
  /\ \A kb \in SyncLoopback : extractIPAddress(input.outcome.probe[kb]).err = "nil"
  /\ BagCardinality(output.val.cmds) = 2

\* The bindings of a table.
Bindings(portMap) ==
  UNION { { portMap[k][i] : i \in DOMAIN portMap[k] } : k \in DOMAIN portMap }

\* C8, as stated: every binding stored in the tracker or compared by the
\* update handler has host IP "127.0.0.1" or "0.0.0.0"; a label entry with
\* host IP "localhost" is stored as "127.0.0.1".
C8_AsClaimed ==
  \A b \in UNION { Bindings(tracker[c].portMap) : c \in Containers } \cup Bindings(cur.ports) :
    b.HostIP \in {"127.0.0.1", "0.0.0.0"}

\* C9, as stated: NormalizeHostIP maps "127.0.0.1" to "127.0.0.1",
\* "localhost" to "127.0.0.1", and every other string, "10.0.0.5" and the
\* empty string among them, to "0.0.0.0".
C9_AsClaimed ==
  (output.done /\ input.kind = "ip")
  => output.val = IF input.ip \in {"127.0.0.1", "localhost"} THEN "127.0.0.1"
                  ELSE "0.0.0.0"

\* A valid PortMapping: ports in range, a known protocol, a normalized host IP.
ValidPortMapping(p) ==
  /\ p.HostPort \in 1..MaxPort
  /\ p.ContainerPort \in 1..MaxPort
  /\ p.Protocol \in {"tcp", "udp"}
  /\ p.HostIP \in {"127.0.0.1", "0.0.0.0"}

\* C10: decoding the ports label that encodes a valid PortMapping list L
\* gives, without error, a table equal to L: under each key
\* <container port>/<protocol> the mappings of L with that container port
\* and protocol, in L's order, and no other key.
C10_RoundTrip ==
  (/\ output.done
   /\ input.kind = "label"
   /\ input.label.kind = "json"
   /\ \A i \in DOMAIN input.label.entries : ValidPortMapping(input.label.entries[i]))
  => LET L == input.label.entries
         T == output.val.portMap
     IN /\ ~output.val.err
        /\ \A i \in DOMAIN L :
             \E k \in DOMAIN T : Atoi(k[1]) = L[i].ContainerPort /\ k[2] = L[i].Protocol
        /\ \A k \in DOMAIN T :
             [i \in DOMAIN T[k] |->
                Port(Atoi(T[k][i].HostPort), Atoi(k[1]), k[2], T[k][i].HostIP)]
             = SelectSeq(L, LAMBDA p : p.ContainerPort = Atoi(k[1]) /\ p.Protocol = k[2])

C10_Witness ==
  /\ output.done
  /\ input.kind = "label"
  /\ input.label.kind = "json"
  /\ Len(input.label.entries) = 2
  /\ \A i \in DOMAIN input.label.entries : ValidPortMapping(input.label.entries[i])
  /\ input.label.entries[1].ContainerPort = input.label.entries[2].ContainerPort
  /\ input.label.entries[1].Protocol = input.label.entries[2].Protocol
  /\ input.label.entries[1] # input.label.entries[2]
  /\ ~output.val.err
  /\ MapLen(output.val.portMap) = 1

\* The calls of a record, as a set.
Calls(e) == { e.ops[i] : i \in DOMAIN e.ops }

\* C11: the engine only ever appends rules.  The handlers of task-exit and
\* Close (with the tracker's Remove and RemoveAll they call) run no iptables
\* command and make no synchronizer call; the only call that runs commands
\* is the synchronizer's, whose commands are all appends, so no step takes a
\* rule away.
C11_OnlyAppends ==
  /\ last.Topic \in {"/tasks/exit", "Close"}
       => \A o \in Calls(last) : o.op \in {"Remove", "RemoveAll", "containerdClient.Close"}
                                  /\ o.cmds = 0
  /\ \A o \in Calls(last) \cup Calls(cur) :
       /\ o.cmds >= 0
       /\ o.cmds > 0 => o.op = "execIptablesRules"

C11_Witness ==
  /\ last.Topic = "Close"
  /\ received
  /\ Names(last.ops) = <<"containerdClient.Close", "RemoveAll">>
  /\ \A o \in Calls(last) : o.cmds = 0 /\ ~o.err

\* C12: Close calls RemoveAll whether or not closing the runtime connection
\* failed, and when RemoveAll did not fail the tracker holds no record.
C12_CloseClearsTracker ==
  last.Topic = "Close"
  => /\ Names(last.ops) = <<"containerdClient.Close", "RemoveAll">>
     /\ ~last.ops[2].err => \A c \in Containers : tracker[c] = NoRecord

C12_Witness ==
  /\ last.Topic = "Close"
  /\ received
  /\ Names(last.ops) = <<"containerdClient.Close", "RemoveAll">>
  /\ last.ops[1].err
  /\ ~last.ops[2].err
  /\ \A c \in Containers : tracker[c] = NoRecord

\* C13: when the loop takes the error channel's case or the context's, it
\* returns, and from then on (until MonitorPorts is called anew) the live
\* loop handles no envelope: no record of it completes, it changes nothing
\* in the tracker and calls nothing.
C13_LoopReturns ==
  [][/\ (Completes /\ last'.by = "live" /\ last'.Topic \in {"ctx.Done", "errCh"})
        => lpc' = "returned"
     /\ (lpc = "returned" /\ lpc' = "returned")
        => /\ ~(Completes /\ last'.by = "live")
           /\ received' = received
           /\ cur' = cur]_vars

C13_Witness ==
  /\ lpc = "returned"
  /\ received
  /\ last.by = "live"
  /\ last.Topic = "errCh"
  /\ \E c \in Containers : tracker[c].present

\* C14: no failure within one envelope or one listed container ends the
\* live loop or the reconciliation pass.  Every handler of an envelope ends
\* with the loop back at its select, and every visit of the pass goes on to
\* the next listed container (the pass is done only after the last one).
C14_FailuresDoNotStop ==
  [][/\ (Completes /\ last'.by = "live" /\ last'.Topic \in Topics) => lpc' = "select"
     /\ (lpc \in {"update_add", "update_add_new"} /\ lpc' # lpc) => lpc' = "select"
     /\ (rpc \in {"check", "inspect"} /\ rlist' # rlist)
        => /\ rlist' = Tail(rlist)
           /\ rpc' = IF Tail(rlist) = <<>> THEN "done" ELSE "check"]_vars

C14_Witness ==
  /\ last.by = "reconciler"
  /\ last.skip \in {"task", "status", "labels"}
  /\ rpc = "check"
  /\ rlist # <<>>
  /\ lpc = "select"

\* A step in which a start handler or a reconciler visit completes having
\* created a record for its container.
RecordCreated ==
  /\ Completes
  /\ last'.Topic \in {"/tasks/start", "reconcile"}
  /\ TrackerGet(tracker, last'.ContainerID).nil
  /\ ~TrackerGet(tracker', last'.ContainerID).nil

\* C15, as stated: a start event or a reconciliation pass creates a record
\* only for a container with at least one mapping bound to 127.0.0.1; a
\* container whose mappings are all bound to 0.0.0.0 gets no record.
C15_AsClaimed ==
  [][RecordCreated => \E b \in Bindings(last'.ports) : b.HostIP = "127.0.0.1"]_vars

\* C15, amended: a start event or a reconciliation pass creates a record
\* for a container not on record exactly when the table extracted from its
\* ports label is non-empty, whatever the host IPs of its bindings; the
\* record is that table.
C15_RecordForAnyMapping ==
  [][(/\ Completes
      /\ last'.Topic \in {"/tasks/start", "reconcile"}
      /\ TrackerGet(tracker, last'.ContainerID).nil)
     => IF last'.ports # EmptyMap
        THEN TrackerGet(tracker', last'.ContainerID) =
               [nil |-> FALSE, portMap |-> last'.ports]
        ELSE tracker' = tracker]_vars

C15_Witness ==
  /\ last.Topic \in {"/tasks/start", "reconcile"}
  /\ last.ports # EmptyMap
  /\ \A b \in Bindings(last.ports) : b.HostIP = "0.0.0.0"
  /\ ~last.ops[2].err
  /\ TrackerGet(tracker, last.ContainerID) = [nil |-> FALSE, portMap |-> last.ports]

\* C16: every record of the tracker has a non-empty table, and no handler
\* (start, update, reconciliation) calls Add with an empty table.
C16_NoEmptyAdd ==
  /\ \A c \in Containers : tracker[c].present => tracker[c].portMap # EmptyMap
  /\ \A e \in {last, cur} :
       (\E o \in Calls(e) : o.op = "Add") => e.ports # EmptyMap
  /\ lpc \in {"update_add", "update_add_new"} => cur.ports # EmptyMap

C16_Witness ==
  /\ last.Topic = "/containers/update"
  /\ Names(last.ops) = <<"Add">>
  /\ ~last.ops[1].err
  /\ last.ports # EmptyMap
  /\ TrackerGet(tracker, last.ContainerID) = [nil |-> FALSE, portMap |-> last.ports]

\* C20, as stated: the live loop calls the rule synchronizer at most once
\* per container start, a start event delivered again included: the handler
\* of a start event for a container already on record makes no synchronizer
\* call and appends no rule.
C20_AsClaimed ==
  [][(/\ Completes
      /\ last'.Topic = "/tasks/start"
      /\ ~TrackerGet(tracker, last'.ContainerID).nil
      /\ TrackerGet(tracker, last'.ContainerID).portMap = last'.ports)
     => \A o \in Calls(last') : o.op # "execIptablesRules" /\ o.cmds = 0]_vars

\* The probe found the interface's address.
ProbeOk(probe) == probe.exit = 0 /\ Len(probe.inet) >= 1

\* The loopback bindings of the synchronizer's table whose probe succeeds.
SyncResolved == { kb \in SyncLoopback : ProbeOk(input.outcome.probe[kb]) }

\* C17, as stated: when resolving the interface IP fails in a call of the
\* synchronizer, the call runs no append command at all and returns an
\* error.
C17_AsClaimed ==
  (/\ output.done
   /\ input.kind = "sync"
   /\ \E kb \in SyncLoopback : ~ProbeOk(input.outcome.probe[kb]))
  => /\ output.val.cmds = EmptyBag
     /\ output.val.err

\* C17, amended: the interface IP is resolved once per loopback binding.  A
\* binding whose resolution fails gets no append command on any network and
\* the synchronizer returns an error; the bindings whose resolution
\* succeeds get their appends all the same, and only those are run.
C17_NoRuleForUnresolvedBinding ==
  (/\ output.done
   /\ input.kind = "sync"
   /\ input.networks.kind = "json")
  => LET cmds == output.val.cmds
         nets == 1..Len(input.networks.entries)
     IN /\ SyncResolved # SyncLoopback => output.val.err
        /\ BagCardinality(cmds) = Cardinality(SyncResolved \X nets)
        /\ \A c \in BagToSet(cmds) :
             \E kb \in SyncResolved : \E j \in nets : SyncAppendFor(c, kb, j)

C17_Witness ==
  /\ output.done
  /\ input.kind = "sync"
  /\ input.networks.kind = "json"
  /\ Len(input.networks.entries) = 2
  /\ Cardinality(SyncLoopback) = 2
  /\ Cardinality(SyncResolved) = 1
  /\ BagCardinality(output.val.cmds) = 2
  /\ output.val.err

\* C18: with the interface IP resolved, a command that fails on one network
\* does not stop the appends on the other networks of the binding: a
\* command is run for every (loopback binding, network), the ones that did
\* not fail succeeded, and the synchronizer returns an error exactly when
\* some command failed.
C18_FailingNetworkDoesNotStopOthers ==
  (/\ output.done
   /\ input.kind = "sync"
   /\ input.networks.kind = "json"
   /\ SyncResolved = SyncLoopback)
  => LET cmds == output.val.cmds
         pairs == SyncLoopback \X (1..Len(input.networks.entries))
     IN /\ \A pr \in pairs :
             \E c \in BagToSet(cmds) :
               SyncAppendFor(c, pr[1], pr[2]) /\ c.ok = (pr \notin input.outcome.failing)
        /\ output.val.err <=> (input.outcome.failing \cap pairs # {})

C18_Witness ==
  /\ output.done
  /\ input.kind = "sync"
  /\ input.networks.kind = "json"
  /\ Len(input.networks.entries) = 2
  /\ SyncResolved = SyncLoopback
  /\ Cardinality(SyncLoopback) = 1
  /\ \E kb \in SyncLoopback : input.outcome.failing = {<<kb, 1>>}
  /\ output.val.err
  /\ \E c \in BagToSet(output.val.cmds) : c.ok
  /\ \E c \in BagToSet(output.val.cmds) : ~c.ok

\* C19, as stated: the protocol each appended rule matches is the protocol
\* (tcp or udp) of the mapping the rule is derived from.
C19_AsClaimed ==
  (/\ output.done
   /\ input.kind = "sync"
   /\ input.networks.kind = "json")
  => \A c \in BagToSet(output.val.cmds) :
       \E kb \in SyncResolved : \E j \in 1..Len(input.networks.entries) :
         SyncAppendFor(c, kb, j) /\ c.protocol = kb[1][2]

\* A step of the reconciler at the head of its loop body.
CheckStep == rpc = "check" /\ <<rpc, rlist>>' # <<rpc, rlist>>

\* C21: in every interleaving, when the reconciler's already-tracked check
\* for a container comes after an Add for it has succeeded (the live start
\* handler's included) and the record is still there, the reconciler skips
\* the container: no synchronizer call (so no IP probe and no iptables
\* command) and no Add.
C21_ReconcilerSkipsTracked ==
  [][(CheckStep /\ tracker[Head(rlist)].present)
     => /\ rpc' # "inspect"
        /\ rlist' = Tail(rlist)
        /\ Completes
        /\ last'.by = "reconciler"
        /\ last'.ContainerID = Head(rlist)
        /\ Calls(last') = {}
        /\ tracker' = tracker]_vars

C21_Witness ==
  /\ received
  /\ lpc = "select"
  /\ last.by = "reconciler"
  /\ last.skip = "tracked"
  /\ Calls(last) = {}
  /\ rpc = "check"
  /\ tracker[last.ContainerID].present

\* C22, as stated: the rules of a container that both the live start path
\* and the reconciler discover are applied a second time only when both
\* paths were past the already-tracked check before either added the
\* record.  When the reconciler has added the record first and the start
\* event of the same container is handled afterwards, the start handler
\* makes no second synchronizer call.
C22_AsClaimed ==
  [][(/\ last.by = "reconciler"
      /\ Names(last.ops) = <<"execIptablesRules", "Add">>
      /\ TrackerGet(tracker, last.ContainerID) =
           [nil |-> FALSE, portMap |-> last.ports]
      /\ Completes
      /\ last'.Topic = "/tasks/start"
      /\ last'.ContainerID = last.ContainerID
      /\ last'.ports = last.ports)
     => \A o \in Calls(last') : o.op # "execIptablesRules"]_vars

\* C23, as stated: an envelope whose payload fails to decode or whose
\* container lookup fails is skipped: its handler calls neither Add nor
\* Remove nor the synchronizer, for each of the three topics.
C23_AsClaimed ==
  \A e \in {last, cur} :
    (e.by = "live" /\ (e.decodeErr \/ e.lookupErr)) => Calls(e) = {}

\* C24, as stated: when the ports label or the networks label of a
\* container is malformed JSON, the event changes nothing in the tracker
\* and runs no iptables command.
C24_AsClaimed ==
  [][(Completes /\ (last'.portsErr \/ (last'.networksErr /\ ~last'.lookupErr)))
     => /\ tracker' = tracker
        /\ Calls(last') = {}]_vars

\* C24, amended: a malformed ports label makes the handler stop with no
\* call and no change of the tracker.  A networks label that does not parse
\* makes the synchronizer of a start event or a reconciler visit return an
\* error with no iptables command run, but the Add is made all the same:
\* a container not on record gets its record.
C24_MalformedLabels ==
  [][/\ (Completes /\ last'.portsErr)
        => /\ tracker' = tracker
           /\ Calls(last') = {}
           /\ last'.ports = EmptyMap
     /\ (/\ Completes
         /\ last'.Topic \in {"/tasks/start", "reconcile"}
         /\ last'.networksErr
         /\ last'.ports # EmptyMap)
        => /\ Names(last'.ops) = <<"execIptablesRules", "Add">>
           /\ last'.ops[1].err
           /\ last'.ops[1].cmds = 0
           /\ TrackerGet(tracker, last'.ContainerID).nil
                => TrackerGet(tracker', last'.ContainerID) =
                     [nil |-> FALSE, portMap |-> last'.ports]]_vars

C24_Witness ==
  /\ last.Topic = "/tasks/start"
  /\ last.networksErr
  /\ ~last.lookupErr
  /\ last.ports # EmptyMap
  /\ last.ops[1].cmds = 0
  /\ ~last.ops[2].err
  /\ TrackerGet(tracker, last.ContainerID) = [nil |-> FALSE, portMap |-> last.ports]

\* C25: the handler of a start event with a non-empty table calls the
\* synchronizer first, and calls Add only after it has returned.
C25_RulesBeforeAdd ==
  \A e \in {last, cur} :
    (e.Topic = "/tasks/start" /\ e.ports # EmptyMap)
    => /\ Len(e.ops) = 2
       /\ e.ops[1].op = "execIptablesRules"
       /\ e.ops[2].op = "Add"

C25_Witness ==
  /\ last.Topic = "/tasks/start"
  /\ Len(last.ops) = 2
  /\ last.ops[1].op = "execIptablesRules"
  /\ last.ops[1].cmds > 0
  /\ ~last.ops[1].err
  /\ last.ops[2].op = "Add"
  /\ ~last.ops[2].err

\* What a visit of the reconciler does to container c: its already-tracked
\* check and, past it, the rest of the loop body.
VisitEffect(c, labels, outcome) ==
  IF AlreadyTracked(c)
  THEN [t |-> tracker, ops |-> <<>>]
  ELSE LET h == ReconcileHandler(c, [fail |-> "none", labels |-> labels], outcome)
       IN [t |-> h.t, ops |-> h.e.ops]

\* What the start handler does for container c.
StartEffect(c, labels, outcome) ==
  LET h == StartHandler([Topic |-> "/tasks/start", Namespace |-> labels.namespace,
                         ContainerID |-> c, decodeErr |-> FALSE], labels, outcome)
  IN [t |-> h.t, ops |-> h.e.ops]

\* C26, as stated: for the same running container (same id, labels,
\* namespace and pid) in the same tracker state, the reconciler's visit and
\* the start handler have the same effects: the same synchronizer call with
\* the same commands and the same Add.
C26_AsClaimed ==
  \A c \in Containers : \A labels \in LabelsOf(c) :
    \A outcome \in UniformOutcomes(createPortMappingFromString(labels.ports).portMap,
                                   labels.networks) :
      VisitEffect(c, labels, outcome) = StartEffect(c, labels, outcome)

\* C27: the reconciler makes no call (no synchronizer call, no iptables
\* command, no Add) and changes nothing in the tracker for a listed
\* container whose task or status cannot be obtained or whose task is not
\* running.
C27_NotRunningIsSkipped ==
  [][(/\ Completes
      /\ last'.by = "reconciler"
      /\ last'.skip \in {"task", "status", "notRunning"})
     => /\ Calls(last') = {}
        /\ tracker' = tracker]_vars

C27_Witness ==
  /\ last.by = "reconciler"
  /\ last.skip = "notRunning"
  /\ last.ContainerID \in Containers
  /\ Calls(last) = {}
  /\ ~tracker[last.ContainerID].present

\* C28, as stated: under fair scheduling of the reconciliation goroutine
\* the pass launched by MonitorPorts terminates; each of its visits that
\* finds a running container with a valid non-empty ports label leaves the
\* container on record, with no live event needed; and the record stays
\* unless a task-exit event takes it away.
C28_AsClaimed ==
  /\ (rpc = "list") ~> (rpc = "done")
  /\ [][/\ (/\ rpc = "inspect"
            /\ rpc' # "inspect"
            /\ last'.skip = "none"
            /\ last'.ports # EmptyMap)
           => tracker'[Head(rlist)].present
        /\ \A c \in Containers :
             (tracker[c].present /\ ~tracker'[c].present)
             => (Completes /\ last'.Topic = "/tasks/exit")]_vars

\* C28, amended: the pass terminates and each such visit leaves the
\* container on record, as stated; the record is taken away by a task-exit
\* event, and also by Close and by the update handler between its Remove
\* and its Add, so a container with no exit event can be off record when
\* the pass has terminated.
C28_PassTerminatesAndTracks ==
  /\ (rpc = "list") ~> (rpc = "done")
  /\ [][/\ (/\ rpc = "inspect"
            /\ rpc' # "inspect"
            /\ last'.skip = "none"
            /\ last'.ports # EmptyMap)
           => tracker'[Head(rlist)].present
        /\ \A c \in Containers :
             (tracker[c].present /\ ~tracker'[c].present)
             => \/ Completes /\ last'.Topic \in {"/tasks/exit", "Close"}
                \/ lpc = "select" /\ lpc' = "update_add"]_vars

C28_Witness ==
  /\ rpc = "done"
  /\ ~received
  /\ last.by = "reconciler"
  /\ last.skip = "none"
  /\ Names(last.ops) = <<"execIptablesRules", "Add">>
  /\ \A c \in Containers : tracker[c].present

\* The bindings of a table under key k, as a set.
BindingSet(portMap, k) == { portMap[k][i] : i \in DOMAIN portMap[k] }

\* Two tables with the same keys and, under each key, the same bindings in
\* whatever order.
SameMappings(a, b) ==
  /\ DOMAIN a = DOMAIN b
  /\ \A k \in DOMAIN a : /\ BindingSet(a, k) = BindingSet(b, k)
                         /\ Len(a[k]) = Len(b[k])

\* C29, as stated: the update handler's comparison does not depend on the
\* order of the bindings: an update whose bindings under each key are the
\* ones on record, listed in another order, is handled as unchanged (no
\* Remove, no Add, no rule application).
C29_AsClaimed ==
  [][(/\ UpdateReceived
      /\ ~TrackerGet(tracker, UpdateRecord.ContainerID).nil
      /\ SameMappings(TrackerGet(tracker, UpdateRecord.ContainerID).portMap,
                      UpdateRecord.ports))
     => /\ lpc' = "select"
        /\ Calls(last') = {}
        /\ tracker' = tracker]_vars

\* C30: the live loop handles one envelope at a time, in the order it
\* receives them.  It receives an envelope only at its select, with no
\* handler under way; while a handler is under way the loop's next step is
\* that handler's, and it completes the record of the envelope received.
C30_OneEnvelopeAtATime ==
  [][/\ (lpc = "select") => cur = NoEvent
     /\ (lpc \in {"update_add", "update_add_new"})
        => /\ cur.by = "live"
           /\ cur.Topic = "/containers/update"
     /\ received' # received => lpc = "select"
     /\ (Completes /\ last'.by = "live")
        => \/ lpc = "select" /\ cur = NoEvent
           \/ /\ lpc \in {"update_add", "update_add_new"}
              /\ lpc' = "select"
              /\ cur' = NoEvent
              /\ last'.ContainerID = cur.ContainerID
              /\ last'.Topic = cur.Topic
              /\ SubSeq(last'.ops, 1, Len(cur.ops)) = cur.ops]_vars

C30_Witness ==
  /\ lpc = "select"
  /\ cur = NoEvent
  /\ last.by = "live"
  /\ last.Topic = "/containers/update"
  /\ Names(last.ops) = <<"Remove", "Add">>
  /\ \A o \in Calls(last) : ~o.err

\* The entries of list L under the key of entry p.
SameKey(L, p) ==
  SelectSeq(L, LAMBDA q : q.ContainerPort = p.ContainerPort /\ q.Protocol = p.Protocol)

\* C31: the extractor returns an empty table and no error for an empty (or
\* absent) ports label; for a valid JSON label it returns no error and a
\* table that holds a binding for every entry: under the key of each entry
\* there are as many bindings as the label has entries of that key, the
\* binding of each entry among them, so none overwrites another.
C31_KeepsEveryBinding ==
  /\ (output.done /\ input.kind = "label" /\ input.label.kind = "empty")
     => (output.val.portMap = EmptyMap /\ ~output.val.err)
  /\ (/\ output.done
      /\ input.kind = "label"
      /\ input.label.kind = "json"
      /\ \A i \in DOMAIN input.label.entries :
           input.label.entries[i].ContainerPort <= MaxPort)
     => LET L == input.label.entries
            T == output.val.portMap
        IN /\ ~output.val.err
           /\ \A i \in DOMAIN L :
                LET k == <<Itoa(L[i].ContainerPort), L[i].Protocol>>
                IN /\ k \in DOMAIN T
                   /\ Len(T[k]) = Len(SameKey(L, L[i]))
                   /\ \E j \in DOMAIN T[k] :
                        /\ T[k][j].HostPort = Itoa(L[i].HostPort)
                        /\ T[k][j].HostIP = NormalizeHostIP(L[i].HostIP)
                        /\ SameKey(L, L[i])[j] = L[i]

C31_Witness ==
  /\ output.done
  /\ input.kind = "label"
  /\ input.label.kind = "json"
  /\ Len(input.label.entries) = 2
  /\ ~output.val.err
  /\ \E k \in DOMAIN output.val.portMap :
       /\ Len(output.val.portMap[k]) = 2
       /\ output.val.portMap[k][1].HostIP = "127.0.0.1"
       /\ output.val.portMap[k][2].HostIP = "0.0.0.0"
       /\ output.val.portMap[k][1].HostPort # output.val.portMap[k][2].HostPort

\* C32: the resolver tells its two failures apart: a probe that exits
\* non-zero gives the execution error whatever it printed; a probe that
\* exits zero with no inet <ipv4>/<prefixlen> in its output gives
\* ErrIPAddressNotFound; otherwise the result is the first such address and
\* no error.
C32_ResolverFailureModes ==
  (output.done /\ input.kind = "probe")
  => LET m == FindSubmatch(input.probe.lines)
     IN /\ input.probe.exit # 0 => output.val = [ip |-> "", err |-> "exec"]
        /\ (input.probe.exit = 0 /\ m = <<>>)
           => output.val = [ip |-> "", err |-> "ErrIPAddressNotFound"]
        /\ (input.probe.exit = 0 /\ m # <<>>)
           => output.val = [ip |-> m[1], err |-> "nil"]

C32_Witness ==
  /\ output.done
  /\ input.kind = "probe"
  /\ input.probe.exit = 0
  /\ Len(input.probe.lines) = 2
  /\ input.probe.lines[1] = OutputLine("inet", "10.4.0.23", TRUE)
  /\ input.probe.lines[2] = OutputLine("inet", "10.4.0.22", TRUE)
  /\ output.val = [ip |-> "10.4.0.23", err |-> "nil"]

\* C33, as stated: the table on record for a container is one the
\* synchronizer was called for in the event or pass that recorded it: a
\* handler or visit whose Add put its table on record has called the
\* synchronizer before that Add, the update handler's included.
C33_AsClaimed ==
  \A i \in DOMAIN last.ops :
    (/\ last.ops[i].op = "Add"
     /\ ~last.ops[i].err
     /\ TrackerGet(tracker, last.ContainerID) = [nil |-> FALSE, portMap |-> last.ports])
    => \E j \in 1..(i - 1) : last.ops[j].op = "execIptablesRules"

\* C34, as stated: once the task-exit event of a container has been handled
\* and no start event for it has come since, the tracker holds no record
\* for it in any interleaving; in particular a step of the reconciler that
\* comes after the exit handler does not put the container on record.
C34_AsClaimed ==
  [][(/\ last.Topic = "/tasks/exit"
      /\ last.ContainerID \in Containers
      /\ last'.Topic # "/tasks/start")
     => ~tracker'[last.ContainerID].present]_vars

\* C35, as stated: after a Close whose RemoveAll succeeded the tracker stays
\* empty: the next step of the reconciler or of the live loop adds no record
\* and makes no synchronizer call.
C35_AsClaimed ==
  [][(/\ last.Topic = "Close"
      /\ ~last.ops[2].err
      /\ Completes
      /\ last'.by \in {"live", "reconciler"})
     => /\ \A c \in Containers : tracker'[c] = NoRecord
        /\ \A o \in Calls(last') : o.op # "execIptablesRules"]_vars

\* C36: in both backends a stop() called while currentAction is starting or
\* stopping returns at once: the state and currentAction it returns into
\* are the ones it found, no stop body is started and the machine is left
\* running.  This holds for the stop() that the exit handler of the K3s
\* process calls; a change of state in the same turn is the handler's own.
C36_StopIgnoredWhileBusy ==
  [][(lastStop'.tick # lastStop.tick /\ currentAction # "idle")
     => /\ lastStop'.ignored
        /\ lastStop'.state = internalState
        /\ lastStop'.action = currentAction
        /\ currentAction' = currentAction
        /\ stoppc' = stoppc
        /\ vm' = vm
        /\ lastStop'.by # "exit" => internalState' = internalState]_vars

C36_Witness ==
  /\ lastStop.by = "exit"
  /\ lastStop.ignored
  /\ lastStop.action = "stopping"
  /\ lastStop.state = "STOPPING"
  /\ currentAction = "stopping"
  /\ stoppc = "terminating"
  /\ vm

\* C37, as stated: when the K3s process of the WSL backend has exited with
\* a non-zero status or a signal other than SIGTERM while no action was
\* under way, and the work this started has settled with no call of
\* start() or stop() since, the state is ERROR.
C37_AsClaimed ==
  (/\ backend = "wsl"
   /\ process = "crashed"
   /\ lastStop.by = "exit"
   /\ currentAction = "idle"
   /\ startpc = "idle"
   /\ stoppc = "idle")
  => internalState = "ERROR"

====
